---- MODULE Spec2Model ----
(***************************************************************************)
(* SMPTE colour-bars test pattern generator (SvelteKit).                   *)
(*                                                                         *)
(*   src/lib/timeSync.ts                 the synchronized clock            *)
(*   src/lib/components/ColorBars.svelte the component: animation state,   *)
(*                                       timecodes, layout                 *)
(*   the route page (third script block of ColorBars.svelte, line 1420 on) *)
(*                                       settings, resolution, fullscreen  *)
(*                                                                         *)
(* Numbers.  TLA+ has integers only, so every real-valued quantity is kept *)
(* in a fixed unit in which the code's arithmetic is exact:                *)
(*   instants and timestamps   milliseconds                                *)
(*   deltaMs                   1/100 ms  (the first frame's 16.67 = 1667)  *)
(*   ballX, ballRadius         1/BallUnit pixel                            *)
(*   shimmerX                  1/ShimmerUnit pixel                         *)
(*   spinnerAngle              1/125 degree                                *)
(*   bar rectangles            1/7 pixel                                   *)
(* Floating-point rounding is not modelled.  Instants are kept below 2^31  *)
(* ms (January 1970) because TLC's integers are 32 bits wide; the code     *)
(* only uses an instant through its remainders and quotients.              *)
(***************************************************************************)
EXTENDS Integers, Sequences, FiniteSets, TLC

VARIABLES
    \* ---- environment
    dateNow,            \* Date.now(), ms
    perfNow,            \* the monotonic clock behind requestAnimationFrame, ms
    localTzOffsetMin,   \* the host's zone: local time = UTC + this many minutes
    midnightHour,       \* the hour Intl prints at midnight with hour12:false (0 or 24)
    storage,            \* localStorage[STORAGE_KEY]
    \* ---- timeSync.ts
    timeOffset,         \* timeData.offset
    synced,             \* timeData.synced
    syncInProgress,
    \* ---- route page
    resolution,         \* name of the selected entry of resolutions
    containerWidth, containerHeight,
    nativeWidth, nativeHeight,
    isFullscreen, showFullscreenHint,
    ballEnabled, spinnerEnabled, syncQrEnabled, shimmerEnabled,
    showUtcTime, showLocalTime, showRemoteTime, selectedTimezone,
    gridEnabled, frameEnabled, actualSizeMode,
    customText, customImage, hAlign, vAlign,
    textScale,          \* in tenths
    settingsLoaded,
    \* ---- ColorBars component
    mounted,            \* onMount has run
    animationFrame,     \* the handle of the last requestAnimationFrame (0: undefined)
    pendingFrames,      \* the handles of the animation-frame callbacks the browser holds
    destroyed,          \* the cleanup onMount returned has run
    currentTime,
    fps, lastFrameTime, frameCount, fpsUpdateTime,
    ballX, ballDirection,
    spinnerAngle, spinnerFlashFrameMs, spinnerPhaseMs,
    qrToken, qrLabel, qrDataUrl,
    shimmerX,
    \* ---- bookkeeping of the run
    lastOp,             \* the handler that ran last
    ticks,              \* number of animation frames so far
    events,             \* number of page events (toggles, resizes, sync steps) so far
    lastQrChangeSec,    \* <<floor(synced instant / 1000), showSyncQr>> of the last payload change
    countingSince,      \* the timestamp since which frameCount counts frames (0: not mounted)
    settingsAtUnload    \* <<the settings the user had when the page was last closed>>

envVars  == <<dateNow, perfNow, localTzOffsetMin, midnightHour>>
syncVars == <<timeOffset, synced, syncInProgress>>
dimVars  == <<resolution, containerWidth, containerHeight, nativeWidth, nativeHeight,
              isFullscreen, showFullscreenHint>>
flagVars == <<ballEnabled, spinnerEnabled, syncQrEnabled, shimmerEnabled>>
timeFlagVars == <<showUtcTime, showLocalTime, showRemoteTime, selectedTimezone>>
lookVars == <<gridEnabled, frameEnabled, actualSizeMode, customText, customImage,
              hAlign, vAlign, textScale>>
pageVars == <<dimVars, flagVars, timeFlagVars, lookVars, settingsLoaded>>
animVars == <<mounted, animationFrame, pendingFrames, destroyed, currentTime, fps, lastFrameTime, frameCount,
              fpsUpdateTime, ballX, ballDirection, spinnerAngle, spinnerFlashFrameMs,
              spinnerPhaseMs, qrToken, qrLabel, qrDataUrl, shimmerX>>
runVars  == <<lastOp, ticks, events, lastQrChangeSec, countingSince, settingsAtUnload>>
vars     == <<envVars, storage, syncVars, pageVars, animVars, runVars>>

----------------------------------------------------------------------------
(* Bounds of the model *)

MaxTicks == 3

\* toggles, resizes and sync steps in one run
MaxEvents == 3

\* milliseconds between two animation frames: a 60 Hz frame, a gap of just
\* under a second and a stall of more than two seconds
TickDeltas == {16, 990, 2100}

\* Date.now() when the component is constructed
StartInstants == {1700003250}

\* offsets a time sync can measure (the last one puts the synced clock before 1970)
SyncOffsets == {-730, 260, -1700009000}

\* the monotonic clock when the component is constructed
PerfStarts == {120, 830}

\* instants (ms) at which the time rows are rendered, on day 19 after the epoch
\* and just before the epoch
TcInstants ==
    { 19 * 86400000 + 500,                                      \* 00:00:00.500
      19 * 86400000 + 12 * 3600000,                             \* 12:00:00.000
      19 * 86400000 + 18 * 3600000 + 30 * 60000,                \* 18:30:00.000
      19 * 86400000 + 23 * 3600000 + 59 * 60000 + 59999,        \* 23:59:59.999
      19 * 86400000 + 20 * 3600000 + 15 * 60000 + 7034,         \* 20:15:07.034
      19 * 86400000 + 4 * 3600000 + 59 * 60000 + 59033,         \* 04:59:59.033
      19 * 86400000 + 9 * 3600000 + 5 * 60000 + 3966,           \* 09:05:03.966
      -1 }                                                      \* 23:59:59.999

\* UTC offsets of the host, in minutes
HostOffsets == {-300, 330}

\* sizes the ResizeObserver reports (floor of the content rectangle)
ContainerSizes == {<<400, 300>>, <<240, 400>>, <<0, 0>>}

\* screens (CSS pixels) and device pixel ratios (in quarters) of a fullscreen change
Screens   == {<<1920, 1080>>, <<1920, 1200>>, <<1366, 768>>}
DprQuarters == {4, 5, 8}

----------------------------------------------------------------------------
(* Units *)

BallUnit    == 2 * 100000      \* ballX units per pixel
ShimmerUnit == 5 * 100000      \* shimmerX units per pixel
CmsPerSec   == 100 * 1000      \* deltaMs units (1/100 ms) per second

----------------------------------------------------------------------------
(* JavaScript arithmetic *)

Min(a, b) == IF a < b THEN a ELSE b
Max(a, b) == IF a > b THEN a ELSE b

\* a % b of JavaScript: the remainder takes the sign of the dividend
JsRem(a, b) == IF a >= 0 THEN a % b ELSE -((-a) % b)

\* Math.floor(n / d), d > 0
MathFloorDiv(n, d) == n \div d

\* Math.round(n / d), n >= 0, d > 0: halves round up
MathRoundDiv(n, d) == (2 * n + d) \div (2 * d)

\* Number.prototype.toString of a non-negative integer, as its decimal digits
RECURSIVE ToDigits(_)
ToDigits(n) == IF n < 10 THEN <<n>> ELSE Append(ToDigits(n \div 10), n % 10)

\* String.prototype.padStart(len, '0')
RECURSIVE PadStart(_, _)
PadStart(s, len) == IF Len(s) >= len THEN s ELSE PadStart(<<0>> \o s, len)

----------------------------------------------------------------------------
(* Date: an instant is a number of milliseconds since the epoch *)

msPerSecond == 1000
msPerMinute == 60 * msPerSecond
msPerHour   == 60 * msPerMinute
msPerDay    == 24 * msPerHour

Day(t)            == t \div msPerDay
TimeWithinDay(t)  == t % msPerDay
getUTCHours(t)        == (t \div msPerHour) % 24
getUTCMinutes(t)      == (t \div msPerMinute) % 60
getUTCSeconds(t)      == (t \div msPerSecond) % 60
getUTCMilliseconds(t) == t % msPerSecond

\* the local fields are the UTC fields of the instant shifted by the host's offset
LocalTime(t)       == t + localTzOffsetMin * msPerMinute
getHours(t)        == getUTCHours(LocalTime(t))
getMinutes(t)      == getUTCMinutes(LocalTime(t))
getSeconds(t)      == getUTCSeconds(LocalTime(t))
getMilliseconds(t) == getUTCMilliseconds(LocalTime(t))

\* Date.prototype.setUTCHours(h, m, s, ms): keeps the UTC day, replaces the time
\* within the day; an hour of 24 carries into the next day
setUTCHours(t, h, m, s, ms) ==
    Day(t) * msPerDay + h * msPerHour + m * msPerMinute + s * msPerSecond + ms

\* Date.prototype.toISOString: the UTC calendar day and the UTC time fields
\* (the day is kept as a day number instead of year-month-day)
toISOString(t) ==
    <<Day(t), PadStart(ToDigits(getUTCHours(t)), 2), PadStart(ToDigits(getUTCMinutes(t)), 2),
      PadStart(ToDigits(getUTCSeconds(t)), 2), PadStart(ToDigits(getUTCMilliseconds(t)), 3)>>

----------------------------------------------------------------------------
(* timeSync.ts *)

\* getSyncedTime(): new Date(Date.now() + timeData.offset)
getSyncedTime == dateNow + timeOffset

----------------------------------------------------------------------------
(* Route page: resolution and the props handed to the component *)

resolutions ==
    << [name |-> "Fit Display", width |-> 0,    height |-> 0],
       [name |-> "SD 480p",     width |-> 720,  height |-> 480],
       [name |-> "HD 720p",     width |-> 1280, height |-> 720],
       [name |-> "1080p",       width |-> 1920, height |-> 1080],
       [name |-> "2K",          width |-> 2048, height |-> 1080],
       [name |-> "1440p",       width |-> 2560, height |-> 1440],
       [name |-> "4K UHD",      width |-> 3840, height |-> 2160],
       [name |-> "4K DCI",      width |-> 4096, height |-> 2160],
       [name |-> "8K UHD",      width |-> 7680, height |-> 4320] >>

ResolutionOf(name) ==
    CHOOSE r \in {resolutions[i] : i \in DOMAIN resolutions} : r.name = name

actualWidth  == IF ResolutionOf(resolution).width = 0
                THEN containerWidth ELSE ResolutionOf(resolution).width
actualHeight == IF ResolutionOf(resolution).height = 0
                THEN containerHeight ELSE ResolutionOf(resolution).height

\* props of <ColorBars>
width       == actualWidth
height      == actualHeight
showBall    == ballEnabled
showSpinner == spinnerEnabled
showSyncQr  == syncQrEnabled
showShimmer == shimmerEnabled
showUtc     == showUtcTime
showLocal   == showLocalTime
showFrame == frameEnabled                \* line 1718

----------------------------------------------------------------------------
(* ColorBars component: derived values *)

\* isScaled comparing the widths only
isScaled_WidthOnly ==
    nativeWidth > 0 /\ nativeHeight > 0 /\ nativeWidth # width

isScaled ==
    nativeWidth > 0 /\ nativeHeight > 0
        /\ (nativeWidth # width \/ nativeHeight # height)

\* Math.min(width, height) * 0.025, in ballX units
ballRadius == Min(width, height) * ((25 * BallUnit) \div 1000)

\* width / 2 pixels per second, in ballX units per 1/100 ms
ballSpeed == (width * BallUnit) \div (2 * CmsPerSec)

\* width / 5 pixels per second, in shimmerX units per 1/100 ms
shimmerSpeed == (width * ShimmerUnit) \div (5 * CmsPerSec)

\* width * 0.3, in shimmerX units
shimmerWidth == width * ((3 * ShimmerUnit) \div 10)

spinnerCycleMs == 5000

\* deltaMs of the first frame after mount (16.67 ms), in 1/100 ms
FirstFrameDelta == 1667

\* the main colour bars, lines 101-109
mainBars == <<"75% White", "75% Yellow", "75% Cyan", "75% Green", "75% Magenta",
              "75% Red", "75% Blue">>

\* a main bar without the overlap of one unit
MainBarRect_NoOverlap(i) == [x |-> width * i, width |-> width]

\* the rect of main bar i (from 0), lines 306-314, in 1/7 pixel:
\* x = (width / 7) * i, width = width / 7 + 1
MainBarRect(i) == [x |-> width * i, width |-> width + Len(mainBars)]

\* the PLUGE row, lines 123-132; the widths are in half units (0.5 = 1)
pluGeRow ==
    << [name |-> "-I",                  width |-> 2],
       [name |-> "100% White",          width |-> 2],
       [name |-> "+Q",                  width |-> 2],
       [name |-> "Black",               width |-> 2],
       [name |-> "Superblack (3.5%)",   width |-> 1],
       [name |-> "Black (7.5%)",        width |-> 2],
       [name |-> "Light Black (11.5%)", width |-> 1],
       [name |-> "Black",               width |-> 4] >>

RECURSIVE SumWidths(_, _)
\* items.slice(0, n).reduce((sum, item) => sum + item.width, 0)
SumWidths(items, n) ==
    IF n = 0 THEN 0 ELSE SumWidths(items, n - 1) + items[n].width

\* line 137, in half units: 16
totalWidthUnits == SumWidths(pluGeRow, Len(pluGeRow))

\* getPlugeX summing the segment at index too
getPlugeX_Inclusive(index) == SumWidths(pluGeRow, index + 1) * width

\* getPlugeX(index), lines 140-142, in 1/totalWidthUnits pixel: the sum over
\* the segments before index of item.width * (width / totalWidthUnits)
getPlugeX(index) == SumWidths(pluGeRow, index) * width

\* the rect of PLUGE segment i (from 0), lines 328-336, in 1/totalWidthUnits
\* pixel: x = getPlugeX(i), width = segment.width * unitWidth + 1
PlugeRect(i) ==
    [x     |-> getPlugeX(i),
     width |-> pluGeRow[i + 1].width * width + totalWidthUnits]

\* the castellations row, lines 112-120
castellations == <<"Blue", "Black", "Magenta", "Black", "Cyan", "Black", "75% White">>

\* the rects of lines 302-336 with their sizes: the background, the main bars,
\* the castellations and the PLUGE row; widths in 1/(7 * totalWidthUnits)
\* pixel, heights in 1/100 pixel
BarRects ==
    << [name |-> "background", width |-> width * Len(mainBars) * totalWidthUnits,
        height |-> height * 100] >>
    \o [i \in 1 .. Len(mainBars) |->
          [name |-> "main", width |-> MainBarRect(i - 1).width * totalWidthUnits,
           height |-> height * 67]]
    \o [i \in 1 .. Len(castellations) |->
          [name |-> "castellation",
           width |-> (width + Len(castellations)) * totalWidthUnits,
           height |-> height * 8]]
    \o [i \in 1 .. Len(pluGeRow) |->
          [name |-> "pluge", width |-> PlugeRect(i - 1).width * Len(mainBars),
           height |-> height * 25]]

\* the border rect of the frame overlay, lines 340-348, in the same units
FrameRects ==
    IF showFrame
    THEN << [name |-> "frame", width |-> (width - 2) * Len(mainBars) * totalWidthUnits,
             height |-> (height - 2) * 100] >>
    ELSE <<>>

\* the QR image of a payload
generateSyncDataUrl(payload) == [image |-> "qr", data |-> payload]

\* the payload template of lines 241 and 260
SyncPayload(t, frameText) == <<toISOString(t), width, height, frameText>>

----------------------------------------------------------------------------
(* Time zones *)

timezones ==
    << [value |-> "Pacific/Honolulu",    label |-> "HST"],
       [value |-> "America/Anchorage",   label |-> "AKST"],
       [value |-> "America/Los_Angeles", label |-> "PST"],
       [value |-> "America/Denver",      label |-> "MST"],
       [value |-> "America/Chicago",     label |-> "CST"],
       [value |-> "America/New_York",    label |-> "EST"],
       [value |-> "America/Sao_Paulo",   label |-> "BRT"],
       [value |-> "Europe/London",       label |-> "GMT"],
       [value |-> "Europe/Paris",        label |-> "CET"],
       [value |-> "Europe/Moscow",       label |-> "MSK"],
       [value |-> "Asia/Dubai",          label |-> "GST"],
       [value |-> "Asia/Kolkata",        label |-> "IST"],
       [value |-> "Asia/Shanghai",       label |-> "CST"],
       [value |-> "Asia/Tokyo",          label |-> "JST"],
       [value |-> "Australia/Sydney",    label |-> "AEST"] >>

TimezoneValues == {timezones[i].value : i \in DOMAIN timezones}

\* the zones of the list whose UTC offset never changes
FixedOffsetZones ==
    {"Pacific/Honolulu", "Europe/Moscow", "Asia/Dubai", "Asia/Kolkata",
     "Asia/Shanghai", "Asia/Tokyo"}

\* the identifiers Intl.DateTimeFormat accepts: the list's and one more
IanaZones == TimezoneValues \cup {"Asia/Seoul"}

\* the zone's UTC offset in minutes (zones with daylight saving: their standard offset)
ZoneOffsetMin(zone) ==
    CASE zone = "Pacific/Honolulu"    -> -600
      [] zone = "America/Anchorage"   -> -540
      [] zone = "America/Los_Angeles" -> -480
      [] zone = "America/Denver"      -> -420
      [] zone = "America/Chicago"     -> -360
      [] zone = "America/New_York"    -> -300
      [] zone = "America/Sao_Paulo"   -> -180
      [] zone = "Europe/London"       -> 0
      [] zone = "Europe/Paris"        -> 60
      [] zone = "Europe/Moscow"       -> 180
      [] zone = "Asia/Dubai"          -> 240
      [] zone = "Asia/Kolkata"        -> 330
      [] zone = "Asia/Shanghai"       -> 480
      [] zone = "Asia/Tokyo"          -> 540
      [] zone = "Asia/Seoul"          -> 540
      [] zone = "Australia/Sydney"    -> 600

\* getRemoteTimezone(), lines 1519-1528: <<>> is null
getRemoteTimezone ==
    IF ~showRemoteTime THEN <<>>
    ELSE IF selectedTimezone \notin TimezoneValues THEN <<>>
    ELSE LET tz == CHOOSE t \in {timezones[i] : i \in DOMAIN timezones} :
                       t.value = selectedTimezone
         IN  << [label |-> tz.label, timezone |-> selectedTimezone] >>

remoteTimezone == getRemoteTimezone      \* prop of <ColorBars>, line 1721

----------------------------------------------------------------------------
(* ColorBars component: time displays and timecodes *)

\* parseInt of a string of decimal digits
RECURSIVE parseInt(_)
parseInt(digits) ==
    IF Len(digits) = 0 THEN 0
    ELSE parseInt(SubSeq(digits, 1, Len(digits) - 1)) * 10 + digits[Len(digits)]

\* formatter.formatToParts(t) of lines 72-80: the zone's local time fields as text
formatToParts(t, zone) ==
    LET local == t + ZoneOffsetMin(zone) * msPerMinute
        h     == getUTCHours(local)
    IN  [hour             |-> ToDigits(IF h = 0 THEN midnightHour ELSE h),
         minute           |-> PadStart(ToDigits(getUTCMinutes(local)), 2),
         second           |-> PadStart(ToDigits(getUTCSeconds(local)), 2),
         fractionalSecond |-> PadStart(ToDigits(getUTCMilliseconds(local)), 3)]

\* RemoteGetTime with setHours in place of setUTCHours
RemoteGetTime_SetHours(t, zone) ==
    CHOOSE d \in { setUTCHours(t, parseInt(parts.hour), parseInt(parts.minute),
                               parseInt(parts.second), parseInt(parts.fractionalSecond))
                       - localTzOffsetMin * msPerMinute
                   : parts \in {formatToParts(t, zone)} } : TRUE

\* getTime of the remote display, lines 70-88; parts is the one value
\* formatToParts returned
RemoteGetTime(t, zone) ==
    CHOOSE d \in { setUTCHours(t, parseInt(parts.hour), parseInt(parts.minute),
                               parseInt(parts.second), parseInt(parts.fractionalSecond))
                   : parts \in {formatToParts(t, zone)} } : TRUE

\* getTimeDisplays pushing the local display before the UTC display
getTimeDisplays_LocalFirst ==
    (IF showLocal THEN << [label |-> "LOCAL", isLocal |-> TRUE, zone |-> ""] >> ELSE <<>>)
    \o (IF showUtc THEN << [label |-> "UTC", isLocal |-> FALSE, zone |-> ""] >> ELSE <<>>)
    \o (IF remoteTimezone # <<>>
        THEN << [label |-> remoteTimezone[1].label, isLocal |-> FALSE,
                 zone |-> remoteTimezone[1].timezone] >>
        ELSE <<>>)

\* getTimeDisplays(), lines 48-94
getTimeDisplays ==
    (IF showUtc THEN << [label |-> "UTC", isLocal |-> FALSE, zone |-> ""] >> ELSE <<>>)
    \o (IF showLocal THEN << [label |-> "LOCAL", isLocal |-> TRUE, zone |-> ""] >> ELSE <<>>)
    \o (IF remoteTimezone # <<>>
        THEN << [label |-> remoteTimezone[1].label, isLocal |-> FALSE,
                 zone |-> remoteTimezone[1].timezone] >>
        ELSE <<>>)

\* getTimecode with Math.round in place of Math.floor
getTimecode_Round(date, useLocal) ==
    LET hours   == PadStart(ToDigits(IF useLocal THEN getHours(date) ELSE getUTCHours(date)), 2)
        minutes == PadStart(ToDigits(IF useLocal THEN getMinutes(date) ELSE getUTCMinutes(date)), 2)
        seconds == PadStart(ToDigits(IF useLocal THEN getSeconds(date) ELSE getUTCSeconds(date)), 2)
        ms      == IF useLocal THEN getMilliseconds(date) ELSE getUTCMilliseconds(date)
        frames  == PadStart(ToDigits(MathRoundDiv(ms * 30, 1000)), 2)
    IN  <<hours, minutes, seconds, frames>>

\* getTimecode(date, useLocal), lines 269-276: the fields HH, MM, SS, FF as text
getTimecode(date, useLocal) ==
    LET hours   == PadStart(ToDigits(IF useLocal THEN getHours(date) ELSE getUTCHours(date)), 2)
        minutes == PadStart(ToDigits(IF useLocal THEN getMinutes(date) ELSE getUTCMinutes(date)), 2)
        seconds == PadStart(ToDigits(IF useLocal THEN getSeconds(date) ELSE getUTCSeconds(date)), 2)
        ms      == IF useLocal THEN getMilliseconds(date) ELSE getUTCMilliseconds(date)
        frames  == PadStart(ToDigits(MathFloorDiv(ms * 30, 1000)), 2)
    IN  <<hours, minutes, seconds, frames>>

\* the time rows of the template, lines 596-624; Intl.DateTimeFormat throws a
\* RangeError for a zone it does not know, and the render fails
TimeRows ==
    LET displays == getTimeDisplays
        time(d)  == IF d.zone = "" THEN currentTime ELSE RemoteGetTime(currentTime, d.zone)
    IN  IF \E i \in DOMAIN displays : displays[i].zone # "" /\ displays[i].zone \notin IanaZones
        THEN [error |-> "RangeError", rows |-> <<>>]
        ELSE [error |-> "",
              rows  |-> [i \in DOMAIN displays |->
                           [label    |-> displays[i].label,
                            timecode |-> getTimecode(time(displays[i]), displays[i].isLocal)]]]

----------------------------------------------------------------------------
(* Route page: settings persistence *)

\* the record saveSettings() writes, lines 1568-1584
Settings ==
    [resolution |-> resolution,
     ball       |-> ballEnabled,
     spinner    |-> spinnerEnabled,
     syncQr     |-> syncQrEnabled,
     shimmer    |-> shimmerEnabled,
     grid       |-> gridEnabled,
     frame      |-> frameEnabled,
     showUtc    |-> showUtcTime,
     showLocal  |-> showLocalTime,
     showRemote |-> showRemoteTime,
     timezone   |-> selectedTimezone,
     customText |-> customText,
     hAlign     |-> hAlign,
     vAlign     |-> vAlign,
     textScale  |-> textScale]

\* localStorage holds no item, text that is not JSON, or a JSON record
NoItem       == [kind |-> "none"]
Malformed    == [kind |-> "malformed"]
Stored(data) == [kind |-> "record", data |-> data]

\* settings.key ?? dflt
Nullish(data, key, dflt) == IF key \in DOMAIN data THEN data[key] ELSE dflt

\* the $effect of lines 1619-1627 after a change of a setting: saveSettings()
SaveEffect ==
    storage' = IF settingsLoaded' THEN Stored(Settings') ELSE storage

\* an $effect that saves on its first run, without the guard of line 1620
StoredAtMount_Unguarded == Stored(Settings)

\* what localStorage holds when onMount runs: the $effect of lines 1619-1627,
\* created before onMount, has had its first run, with settingsLoaded false
StoredAtMount == IF settingsLoaded THEN Stored(Settings) ELSE storage

\* the $state initialisers of the saved settings, lines 1466-1493
DefaultSettings ==
    [resolution |-> "Fit Display",
     ball       |-> FALSE,
     spinner    |-> FALSE,
     syncQr     |-> FALSE,
     shimmer    |-> FALSE,
     grid       |-> FALSE,
     frame      |-> FALSE,
     showUtc    |-> TRUE,
     showLocal  |-> FALSE,
     showRemote |-> FALSE,
     timezone   |-> "America/New_York",
     customText |-> "",
     hAlign     |-> "center",
     vAlign     |-> "center",
     textScale  |-> 10]

\* loadSettings(), lines 1588-1616
LoadSettings ==
    IF StoredAtMount.kind # "record"
    THEN UNCHANGED <<resolution, flagVars, timeFlagVars, gridEnabled, frameEnabled,
                     customText, hAlign, vAlign, textScale>>
    ELSE LET settings == StoredAtMount.data
         IN  /\ resolution' =
                   IF "resolution" \in DOMAIN settings
                       /\ \E i \in DOMAIN resolutions :
                              resolutions[i].name = settings.resolution
                   THEN settings.resolution ELSE resolution
             /\ ballEnabled'      = Nullish(settings, "ball", FALSE)
             /\ spinnerEnabled'   = Nullish(settings, "spinner", FALSE)
             /\ syncQrEnabled'    = Nullish(settings, "syncQr", FALSE)
             /\ shimmerEnabled'   = Nullish(settings, "shimmer", FALSE)
             /\ gridEnabled'      = Nullish(settings, "grid", FALSE)
             /\ frameEnabled'     = Nullish(settings, "frame", FALSE)
             /\ showUtcTime'      = Nullish(settings, "showUtc", TRUE)
             /\ showLocalTime'    = Nullish(settings, "showLocal", FALSE)
             /\ showRemoteTime'   = Nullish(settings, "showRemote", FALSE)
             /\ selectedTimezone' = Nullish(settings, "timezone", "America/New_York")
             /\ customText'       = Nullish(settings, "customText", "")
             /\ hAlign'           = Nullish(settings, "hAlign", "center")
             /\ vAlign'           = Nullish(settings, "vAlign", "center")
             /\ textScale'        = Nullish(settings, "textScale", 10)

----------------------------------------------------------------------------
(* Construction: the state the scripts' initialisers leave *)

\* timeSync.ts, lines 11-18
TimeSyncInit ==
    /\ timeOffset = 0
    /\ synced = FALSE
    /\ syncInProgress = FALSE

\* the route page's $state initialisers, lines 1447-1494 and 1628
PageInit ==
    /\ resolution = "Fit Display"
    /\ containerWidth = 1920 /\ containerHeight = 1080
    /\ nativeWidth = 0 /\ nativeHeight = 0
    /\ isFullscreen = FALSE /\ showFullscreenHint = FALSE
    /\ ballEnabled = FALSE /\ spinnerEnabled = FALSE
    /\ syncQrEnabled = FALSE /\ shimmerEnabled = FALSE
    /\ gridEnabled = FALSE /\ frameEnabled = FALSE /\ actualSizeMode = FALSE
    /\ showUtcTime = TRUE /\ showLocalTime = FALSE /\ showRemoteTime = FALSE
    /\ selectedTimezone = "America/New_York"
    /\ customText = "" /\ customImage = ""
    /\ hAlign = "center" /\ vAlign = "center"
    /\ textScale = 10
    /\ settingsLoaded = FALSE

\* the component's $state initialisers, lines 145-184 and 279, and its first render
ComponentInit ==
    /\ mounted = FALSE
    /\ animationFrame = 0
    /\ pendingFrames = {}
    /\ destroyed = FALSE
    /\ currentTime = dateNow                 \* new Date()
    /\ fps = 0 /\ lastFrameTime = 0 /\ frameCount = 0 /\ fpsUpdateTime = 0
    /\ ballX = 0 /\ ballDirection = 1
    /\ spinnerAngle = 0
    /\ spinnerFlashFrameMs = CmsPerSec \div 60   \* 1000 / 60 ms
    /\ spinnerPhaseMs = 0
    /\ qrToken = 0 /\ qrLabel = <<>> /\ qrDataUrl = <<>>
    /\ shimmerX = 0

RunInit ==
    /\ lastOp = "init"
    /\ ticks = 0
    /\ events = 0
    /\ lastQrChangeSec = <<>>
    /\ countingSince = 0
    /\ settingsAtUnload = <<>>

Constructed(instants, perfs, offsets, midnights, stores) ==
    /\ dateNow \in instants
    /\ perfNow \in perfs
    /\ localTzOffsetMin \in offsets
    /\ midnightHour \in midnights
    /\ storage \in stores
    /\ TimeSyncInit /\ PageInit /\ ComponentInit /\ RunInit

----------------------------------------------------------------------------
(* ColorBars component: onMount and the animation frame *)

\* a browser that keeps the callback it is running: none of the held ones is
\* taken off the list
CurrentFrame_Kept == animationFrame + 1

\* the callback the browser runs next: the oldest it holds
CurrentFrame ==
    CHOOSE handle \in pendingFrames : \A other \in pendingFrames : handle <= other

\* requestAnimationFrame(updateAnimation) with the returned handle dropped
RequestAnimationFrame_Dropped(held, handle) ==
    /\ pendingFrames' = held \cup {handle}
    /\ UNCHANGED animationFrame

\* animationFrame = requestAnimationFrame(updateAnimation), lines 255 and 264,
\* with the callbacks the browser holds at the call and the handle it returns
RequestAnimationFrame(held, handle) ==
    /\ pendingFrames' = held \cup {handle}
    /\ animationFrame' = handle

\* onMount, lines 258-266
Mount ==
    /\ ~mounted
    /\ mounted' = TRUE
    /\ ballX' = ballRadius
    /\ qrLabel' = SyncPayload(currentTime, <<0, 0>>)
    /\ qrDataUrl' = generateSyncDataUrl(qrLabel')
    /\ RequestAnimationFrame(pendingFrames, 1)
    /\ lastOp' = "mount"
    /\ lastQrChangeSec' = <<MathFloorDiv(getSyncedTime, 1000)>>
    /\ countingSince' = perfNow
    /\ UNCHANGED <<currentTime, fps, lastFrameTime, frameCount, fpsUpdateTime,
                   ballDirection, spinnerAngle, spinnerFlashFrameMs, spinnerPhaseMs,
                   qrToken, shimmerX, ticks, events, destroyed, settingsAtUnload>>
    /\ UNCHANGED <<envVars, storage, syncVars, pageVars>>

\* BallStep without the clamp: the ball keeps its overshoot
BallStep_NoClamp(deltaMs) ==
    LET moved == ballX + ballSpeed * ballDirection * deltaMs
    IN  IF moved >= width * BallUnit - ballRadius
        THEN <<moved, -1>>
        ELSE IF moved <= ballRadius
             THEN <<moved, 1>>
             ELSE <<moved, ballDirection>>

\* BallStep negating the direction at a bound instead of setting it
BallStep_Negate(deltaMs) ==
    LET moved == ballX + ballSpeed * ballDirection * deltaMs
    IN  IF moved >= width * BallUnit - ballRadius
        THEN <<width * BallUnit - ballRadius, -ballDirection>>
        ELSE IF moved <= ballRadius
             THEN <<ballRadius, -ballDirection>>
             ELSE <<moved, ballDirection>>

\* BallStep advancing by one nominal frame whatever time has passed
BallStep_FixedDelta(deltaMs) ==
    LET moved == ballX + ballSpeed * ballDirection * FirstFrameDelta
    IN  IF moved >= width * BallUnit - ballRadius
        THEN <<width * BallUnit - ballRadius, -1>>
        ELSE IF moved <= ballRadius
             THEN <<ballRadius, 1>>
             ELSE <<moved, ballDirection>>

\* lines 220-229: the ball after one frame of deltaMs, as <<ballX, ballDirection>>
BallStep(deltaMs) ==
    LET moved == ballX + ballSpeed * ballDirection * deltaMs
    IN  IF moved >= width * BallUnit - ballRadius
        THEN <<width * BallUnit - ballRadius, -1>>
        ELSE IF moved <= ballRadius
             THEN <<ballRadius, 1>>
             ELSE <<moved, ballDirection>>

\* SpinnerPhase with a single remainder
SpinnerPhase_OneRem(t) == JsRem(t, spinnerCycleMs)

\* line 232
SpinnerPhase(t) == JsRem(JsRem(t, spinnerCycleMs) + spinnerCycleMs, spinnerCycleMs)

\* line 233, in 1/125 degree: (phase / 5000) * 360 = phase * 9 / 125
SpinnerAngleOf(phase) == (phase * 360 * 125) \div spinnerCycleMs

\* the frame index rounded to the nearest frame
FrameIndex_Round(t) == MathRoundDiv(getUTCMilliseconds(t) * 30, 1000)

\* line 237
FrameIndex(t) == MathFloorDiv(getUTCMilliseconds(t) * 30, 1000)

\* nextToken from a second read of the unsynchronized clock
NextToken_DateNow(t) == MathFloorDiv(dateNow', 1000)

\* line 238
NextToken(t) == MathFloorDiv(t, 1000)

\* lines 248-253: the shimmer offset after one frame of deltaMs
ShimmerStep(deltaMs) ==
    LET moved == shimmerX + shimmerSpeed * deltaMs
    IN  IF moved > width * ShimmerUnit
        THEN -shimmerWidth - height * ShimmerUnit
        ELSE moved

\* updateAnimation turning the spinner whether it is shown or not
UpdateAnimation_AlwaysSpin(timestamp, now) ==
    LET t       == now + timeOffset                       \* getSyncedTime()
        deltaMs == IF lastFrameTime > 0
                   THEN (timestamp - lastFrameTime) * 100
                   ELSE FirstFrameDelta
        counted == frameCount + 1
        window  == timestamp - fpsUpdateTime
        ball    == BallStep(deltaMs)
    IN  /\ currentTime' = t
        /\ IF window >= 500
           THEN /\ fps' = MathRoundDiv(counted * 1000, window)
                /\ frameCount' = 0
                /\ fpsUpdateTime' = timestamp
           ELSE /\ frameCount' = counted
                /\ UNCHANGED <<fps, fpsUpdateTime>>
        /\ spinnerFlashFrameMs' = deltaMs
        /\ lastFrameTime' = timestamp
        /\ IF showBall
           THEN ballX' = ball[1] /\ ballDirection' = ball[2]
           ELSE UNCHANGED <<ballX, ballDirection>>
        /\ spinnerPhaseMs' = SpinnerPhase(t)
        /\ spinnerAngle' = SpinnerAngleOf(spinnerPhaseMs')
        /\ IF showSyncQr /\ NextToken(t) # qrToken
           THEN /\ qrToken' = NextToken(t)
                /\ qrLabel' = SyncPayload(t, PadStart(ToDigits(FrameIndex(t)), 2))
                /\ qrDataUrl' = generateSyncDataUrl(qrLabel')
           ELSE UNCHANGED <<qrToken, qrLabel, qrDataUrl>>
        /\ IF showShimmer
           THEN shimmerX' = ShimmerStep(deltaMs)
           ELSE UNCHANGED shimmerX
        /\ RequestAnimationFrame(pendingFrames \ {CurrentFrame}, ticks + 2)
        /\ lastQrChangeSec' = IF qrLabel' # qrLabel THEN <<MathFloorDiv(t, 1000)>>
                              ELSE lastQrChangeSec
        /\ countingSince' = IF window >= 500 THEN timestamp ELSE countingSince

\* updateAnimation(timestamp), lines 206-256; now is the value of Date.now()
UpdateAnimation(timestamp, now) ==
    LET t       == now + timeOffset                       \* getSyncedTime()
        deltaMs == IF lastFrameTime > 0
                   THEN (timestamp - lastFrameTime) * 100
                   ELSE FirstFrameDelta
        counted == frameCount + 1
        window  == timestamp - fpsUpdateTime
        ball    == BallStep(deltaMs)
    IN  /\ currentTime' = t
        /\ IF window >= 500
           THEN /\ fps' = MathRoundDiv(counted * 1000, window)
                /\ frameCount' = 0
                /\ fpsUpdateTime' = timestamp
           ELSE /\ frameCount' = counted
                /\ UNCHANGED <<fps, fpsUpdateTime>>
        /\ spinnerFlashFrameMs' = deltaMs
        /\ lastFrameTime' = timestamp
        /\ IF showBall
           THEN ballX' = ball[1] /\ ballDirection' = ball[2]
           ELSE UNCHANGED <<ballX, ballDirection>>
        /\ IF showSpinner
           THEN /\ spinnerPhaseMs' = SpinnerPhase(t)
                /\ spinnerAngle' = SpinnerAngleOf(spinnerPhaseMs')
           ELSE UNCHANGED <<spinnerPhaseMs, spinnerAngle>>
        /\ IF showSyncQr /\ NextToken(t) # qrToken
           THEN /\ qrToken' = NextToken(t)
                /\ qrLabel' = SyncPayload(t, PadStart(ToDigits(FrameIndex(t)), 2))
                /\ qrDataUrl' = generateSyncDataUrl(qrLabel')
           ELSE UNCHANGED <<qrToken, qrLabel, qrDataUrl>>
        /\ IF showShimmer
           THEN shimmerX' = ShimmerStep(deltaMs)
           ELSE UNCHANGED shimmerX
        /\ RequestAnimationFrame(pendingFrames \ {CurrentFrame}, ticks + 2)
        /\ lastQrChangeSec' = IF qrLabel' # qrLabel THEN <<MathFloorDiv(t, 1000)>>
                              ELSE lastQrChangeSec
        /\ countingSince' = IF window >= 500 THEN timestamp ELSE countingSince

\* the browser runs the pending animation-frame callback, d ms after the last
\* one; the first frame comes after the component and the page have mounted
Tick(d) ==
    /\ mounted /\ settingsLoaded /\ pendingFrames # {}
    /\ ticks < MaxTicks
    /\ dateNow' = dateNow + d
    /\ perfNow' = perfNow + d
    /\ UNCHANGED <<mounted, localTzOffsetMin, midnightHour>>
    /\ UNCHANGED <<storage, syncVars, pageVars>>
    /\ UpdateAnimation(perfNow', dateNow')
    /\ ticks' = ticks + 1
    /\ lastOp' = "tick"
    /\ UNCHANGED <<events, destroyed, settingsAtUnload>>

\* the cleanup onMount returned, line 265: cancelAnimationFrame(animationFrame)
Destroy ==
    /\ mounted /\ ~destroyed
    /\ destroyed' = TRUE
    /\ pendingFrames' = pendingFrames \ {animationFrame}
    /\ lastOp' = "destroy"
    /\ UNCHANGED <<mounted, animationFrame, currentTime, fps, lastFrameTime, frameCount,
                   fpsUpdateTime, ballX, ballDirection, spinnerAngle, spinnerFlashFrameMs,
                   spinnerPhaseMs, qrToken, qrLabel, qrDataUrl, shimmerX>>
    /\ UNCHANGED <<envVars, storage, syncVars, pageVars, ticks, events, lastQrChangeSec, countingSince, settingsAtUnload>>

----------------------------------------------------------------------------
(* Route page: handlers *)

\* syncTime() returning before it marks a sync as started
SyncTimeStart_Skipped ==
    UNCHANGED <<syncInProgress, timeOffset, synced>>

\* syncTime() up to the await of fetch, lines 20-32
SyncTimeStart ==
    /\ syncInProgress' = TRUE
    /\ UNCHANGED <<timeOffset, synced>>

\* onMount of the page, lines 1640-1698, then the $effect that saves
PageMount ==
    /\ mounted /\ ~settingsLoaded
    /\ LoadSettings
    /\ settingsLoaded' = TRUE
    /\ SyncTimeStart
    /\ UNCHANGED <<containerWidth, containerHeight, nativeWidth, nativeHeight,
                   isFullscreen, showFullscreenHint, actualSizeMode, customImage>>
    /\ SaveEffect
    /\ UNCHANGED <<envVars, animVars>>
    /\ lastOp' = "pageMount"
    /\ UNCHANGED <<ticks, events, lastQrChangeSec, countingSince, settingsAtUnload>>

\* what every handler of a page event does to the bookkeeping
PageEvent(op) ==
    /\ settingsLoaded /\ ~destroyed
    /\ events < MaxEvents
    /\ events' = events + 1
    /\ lastOp' = op
    /\ UNCHANGED <<ticks, lastQrChangeSec, countingSince, settingsAtUnload>>
    /\ UNCHANGED <<envVars, animVars>>

\* the ResizeObserver callback, lines 1681-1686
ResizeObserved(size) ==
    /\ PageEvent("resize")
    /\ <<containerWidth, containerHeight>> # size
    /\ containerWidth' = size[1]
    /\ containerHeight' = size[2]
    /\ UNCHANGED <<resolution, nativeWidth, nativeHeight, isFullscreen, showFullscreenHint>>
    /\ UNCHANGED <<flagVars, timeFlagVars, lookVars, settingsLoaded>>
    /\ UNCHANGED <<storage, syncVars>>

\* handleFullscreenChange, lines 1648-1670; dprQ is devicePixelRatio in quarters
HandleFullscreenChange(fullscreenElement, screen, dprQ) ==
    /\ PageEvent("fullscreen")
    /\ isFullscreen' = fullscreenElement
    /\ IF fullscreenElement
       THEN /\ containerWidth' = screen[1]
            /\ containerHeight' = screen[2]
            /\ nativeWidth' = MathFloorDiv(screen[1] * dprQ, 4)
            /\ nativeHeight' = MathFloorDiv(screen[2] * dprQ, 4)
            /\ showFullscreenHint' = TRUE
       ELSE /\ nativeWidth' = 0
            /\ nativeHeight' = 0
            /\ showFullscreenHint' = FALSE
            /\ UNCHANGED <<containerWidth, containerHeight>>
    /\ UNCHANGED <<resolution, flagVars, timeFlagVars, lookVars, settingsLoaded>>
    /\ UNCHANGED <<storage, syncVars>>

\* the timer of lines 1660-1662
HintTimeout ==
    /\ showFullscreenHint
    /\ showFullscreenHint' = FALSE
    /\ lastOp' = "hint"
    /\ UNCHANGED <<resolution, containerWidth, containerHeight, nativeWidth, nativeHeight,
                   isFullscreen>>
    /\ UNCHANGED <<flagVars, timeFlagVars, lookVars, settingsLoaded>>
    /\ UNCHANGED <<envVars, storage, syncVars, animVars, ticks, events,
                   lastQrChangeSec, countingSince, settingsAtUnload>>

\* the resolution select, line 1740
SelectResolution(name) ==
    /\ PageEvent("resolution")
    /\ resolution # name
    /\ resolution' = name
    /\ UNCHANGED <<containerWidth, containerHeight, nativeWidth, nativeHeight,
                   isFullscreen, showFullscreenHint>>
    /\ UNCHANGED <<flagVars, timeFlagVars, lookVars, settingsLoaded>>
    /\ SaveEffect
    /\ UNCHANGED syncVars

\* the overlay checkboxes, lines 1765-1780
ToggleBall ==
    /\ PageEvent("toggle")
    /\ ballEnabled' = ~ballEnabled
    /\ UNCHANGED <<spinnerEnabled, syncQrEnabled, shimmerEnabled>>
    /\ UNCHANGED <<dimVars, timeFlagVars, lookVars, settingsLoaded>>
    /\ SaveEffect
    /\ UNCHANGED syncVars

ToggleSpinner ==
    /\ PageEvent("toggle")
    /\ spinnerEnabled' = ~spinnerEnabled
    /\ UNCHANGED <<ballEnabled, syncQrEnabled, shimmerEnabled>>
    /\ UNCHANGED <<dimVars, timeFlagVars, lookVars, settingsLoaded>>
    /\ SaveEffect
    /\ UNCHANGED syncVars

ToggleSyncQr ==
    /\ PageEvent("toggle")
    /\ syncQrEnabled' = ~syncQrEnabled
    /\ UNCHANGED <<ballEnabled, spinnerEnabled, shimmerEnabled>>
    /\ UNCHANGED <<dimVars, timeFlagVars, lookVars, settingsLoaded>>
    /\ SaveEffect
    /\ UNCHANGED syncVars

ToggleShimmer ==
    /\ PageEvent("toggle")
    /\ shimmerEnabled' = ~shimmerEnabled
    /\ UNCHANGED <<ballEnabled, spinnerEnabled, syncQrEnabled>>
    /\ UNCHANGED <<dimVars, timeFlagVars, lookVars, settingsLoaded>>
    /\ SaveEffect
    /\ UNCHANGED syncVars

\* the time checkboxes, lines 1792-1803, and the zone select, lines 1805-1809
ToggleUtc ==
    /\ PageEvent("toggle")
    /\ showUtcTime' = ~showUtcTime
    /\ UNCHANGED <<showLocalTime, showRemoteTime, selectedTimezone>>
    /\ UNCHANGED <<dimVars, flagVars, lookVars, settingsLoaded>>
    /\ SaveEffect
    /\ UNCHANGED syncVars

ToggleLocal ==
    /\ PageEvent("toggle")
    /\ showLocalTime' = ~showLocalTime
    /\ UNCHANGED <<showUtcTime, showRemoteTime, selectedTimezone>>
    /\ UNCHANGED <<dimVars, flagVars, lookVars, settingsLoaded>>
    /\ SaveEffect
    /\ UNCHANGED syncVars

ToggleRemote ==
    /\ PageEvent("toggle")
    /\ showRemoteTime' = ~showRemoteTime
    /\ UNCHANGED <<showUtcTime, showLocalTime, selectedTimezone>>
    /\ UNCHANGED <<dimVars, flagVars, lookVars, settingsLoaded>>
    /\ SaveEffect
    /\ UNCHANGED syncVars

SelectTimezone(value) ==
    /\ PageEvent("timezone")
    /\ showRemoteTime
    /\ selectedTimezone # value
    /\ selectedTimezone' = value
    /\ UNCHANGED <<showUtcTime, showLocalTime, showRemoteTime>>
    /\ UNCHANGED <<dimVars, flagVars, lookVars, settingsLoaded>>
    /\ SaveEffect
    /\ UNCHANGED syncVars

----------------------------------------------------------------------------
(* timeSync.ts: syncTime *)

\* handleVisibilityChange, lines 1674-1676, when no sync is in flight
SyncTimeCall ==
    /\ PageEvent("visible")
    /\ ~syncInProgress
    /\ SyncTimeStart
    /\ UNCHANGED <<storage, pageVars>>

\* handleVisibilityChange while a sync is in flight: syncTime returns timeData
\* at line 22
SyncTimeBusy ==
    /\ PageEvent("visible")
    /\ syncInProgress
    /\ UNCHANGED <<storage, syncVars, pageVars>>

\* handleVisibilityChange when the page was hidden, line 1675: no call
VisibilityHidden ==
    /\ PageEvent("hidden")
    /\ UNCHANGED <<storage, syncVars, pageVars>>

\* the response arrives and is OK, lines 38-55 and 59-61
SyncTimeResolve(offset) ==
    /\ PageEvent("sync")
    /\ syncInProgress
    /\ timeOffset' = offset
    /\ synced' = TRUE
    /\ syncInProgress' = FALSE
    /\ UNCHANGED <<storage, pageVars>>

\* a failed sync that also forgets the measured offset
SyncTimeReject_ResetOffset ==
    /\ PageEvent("sync")
    /\ syncInProgress
    /\ synced' = FALSE
    /\ syncInProgress' = FALSE
    /\ timeOffset' = 0
    /\ UNCHANGED <<storage, pageVars>>

\* a failed sync without the finally block of lines 59-61
SyncTimeReject_StillBusy ==
    /\ PageEvent("sync")
    /\ syncInProgress
    /\ synced' = FALSE
    /\ UNCHANGED <<syncInProgress, timeOffset>>
    /\ UNCHANGED <<storage, pageVars>>

\* fetch rejects or the response is not OK, lines 34-36 and 56-61
SyncTimeReject ==
    /\ PageEvent("sync")
    /\ syncInProgress
    /\ synced' = FALSE
    /\ syncInProgress' = FALSE
    /\ UNCHANGED timeOffset
    /\ UNCHANGED <<storage, pageVars>>

----------------------------------------------------------------------------
(* What localStorage may hold when the page is opened *)

MotionRecord == Stored([ball |-> TRUE, shimmer |-> TRUE])
KolkataRecord ==
    Stored([showUtc |-> TRUE, showLocal |-> TRUE, showRemote |-> TRUE,
            timezone |-> "Asia/Kolkata"])
UnknownZoneRecord == Stored([showRemote |-> TRUE, timezone |-> "Mars/Phobos"])
FullHdRecord == Stored([resolution |-> "1080p"])
FrameRecord == Stored([frame |-> TRUE])
AllClocksRecord ==
    Stored([spinner |-> TRUE, syncQr |-> TRUE, showLocal |-> TRUE, showRemote |-> TRUE,
            timezone |-> "Asia/Kolkata"])
ClockRecord  == Stored([spinner |-> TRUE, syncQr |-> TRUE])

----------------------------------------------------------------------------
(* Motion: the mounted component under frames, resizes and the ball and      *)
(* shimmer toggles                                                           *)

Init == Constructed(StartInstants, PerfStarts, {0}, {0}, {NoItem, MotionRecord})

Next ==
    \/ Mount
    \/ PageMount
    \/ \E d \in TickDeltas : Tick(d)
    \/ \E size \in ContainerSizes : ResizeObserved(size)
    \/ ToggleBall
    \/ ToggleShimmer

Spec == Init /\ [][Next]_vars

----------------------------------------------------------------------------
(* Clock: the mounted component under frames, time syncs and the spinner    *)
(* and sync-QR toggles                                                      *)

InitClock == Constructed(StartInstants, PerfStarts, {0}, {0}, {NoItem, ClockRecord})

NextClock ==
    \/ Mount
    \/ PageMount
    \/ \E d \in TickDeltas : Tick(d)
    \/ ToggleSpinner
    \/ ToggleSyncQr
    \/ SyncTimeCall
    \/ \E offset \in SyncOffsets : SyncTimeResolve(offset)
    \/ SyncTimeReject

SpecClock == InitClock /\ [][NextClock]_vars

----------------------------------------------------------------------------
(* C1 - C5: ball, spinner, sync QR *)

BallInBounds ==
    /\ ballX >= ballRadius
    /\ ballX <= width * BallUnit - ballRadius

\* C1: after mount and after every frame with the ball shown, ballX lies in
\* [ballRadius, width - ballRadius] for the width and height of that frame,
\* whatever the timestamps and the resizes between frames
C1_BallWithinBounds ==
    (lastOp = "mount" \/ (lastOp = "tick" /\ showBall)) => BallInBounds

\* a frame with the ball shown, after a resize, that leaves the ball strictly inside
C1_Witness ==
    /\ lastOp = "tick" /\ showBall /\ ticks >= 2
    /\ containerWidth = 240
    /\ ballX > ballRadius /\ ballX < width * BallUnit - ballRadius

\* the position the frame now being run moves the ball to, before the bounds
\* are looked at (spinnerFlashFrameMs' is the frame's deltaMs, line 217)
BallMoved   == ballX + ballSpeed * ballDirection * spinnerFlashFrameMs'
BallFrame   == lastOp' = "tick" /\ showBall
BallAtRight == BallMoved >= width * BallUnit - ballRadius
BallAtLeft  == ~BallAtRight /\ BallMoved <= ballRadius

\* C2 as claimed, on a canvas of positive width: a frame in which the ball
\* reaches a bound clamps it to the bound and inverts the direction; a frame
\* without contact keeps the direction
C2_Original ==
    [][(BallFrame /\ width > 0) =>
         /\ BallAtRight => ballX' = width * BallUnit - ballRadius
                            /\ ballDirection' = -ballDirection
         /\ BallAtLeft  => ballX' = ballRadius /\ ballDirection' = -ballDirection
         /\ ~(BallAtRight \/ BallAtLeft) => ballDirection' = ballDirection]_vars

\* C2 amended: a frame in which the ball reaches a bound clamps it to the
\* bound and sets the direction to point away from it (-1 at the right bound,
\* which is tested first, +1 at the left), so the direction is inverted exactly
\* when the ball was heading for that bound; a frame without contact moves the
\* ball and keeps the direction
C2_BounceSetsDirection ==
    [][BallFrame =>
         /\ BallAtRight => ballX' = width * BallUnit - ballRadius /\ ballDirection' = -1
         /\ BallAtLeft  => ballX' = ballRadius /\ ballDirection' = 1
         /\ ~(BallAtRight \/ BallAtLeft) =>
                ballX' = BallMoved /\ ballDirection' = ballDirection
         /\ (ballDirection' # ballDirection) <=>
                \/ BallAtRight /\ ballDirection = 1
                \/ BallAtLeft /\ ballDirection = -1]_vars

\* the ball clamped to the right bound of a canvas that was resized
C2_Witness ==
    /\ lastOp = "tick" /\ showBall /\ ticks >= 2
    /\ containerWidth = 400
    /\ ballX = width * BallUnit - ballRadius /\ ballDirection = -1

\* C3: after a frame with the spinner shown, spinnerPhaseMs is the synchronized
\* instant modulo 5000, in [0, 5000) also for instants before the epoch, and
\* spinnerAngle is phase / 5000 * 360: both depend on the instant alone
C3_SpinnerPhaseOfInstant ==
    (lastOp = "tick" /\ showSpinner) =>
        /\ currentTime = getSyncedTime
        /\ spinnerPhaseMs \in 0 .. 4999
        /\ (currentTime - spinnerPhaseMs) % 5000 = 0
        /\ spinnerAngle * 5000 = spinnerPhaseMs * 360 * 125

\* a second frame with the spinner shown at an instant before the epoch
C3_Witness ==
    /\ lastOp = "tick" /\ showSpinner /\ ticks >= 2
    /\ currentTime < 0 /\ spinnerPhaseMs > 0

\* the second of the synchronized clock
SyncedSecond == MathFloorDiv(getSyncedTime, 1000)

\* C4 as claimed: two successive changes of the QR payload never fall into the
\* same integer second of the synchronized clock
C4_Original ==
    [][(qrLabel' # qrLabel /\ lastQrChangeSec # <<>>) =>
           <<SyncedSecond'>> # lastQrChangeSec]_vars

\* C5 as claimed: with the sync QR shown, qrToken still the initial one or that
\* of the previous frame's second, and less than a second of synchronized time
\* since the previous frame (or since construction), a payload change
\* advances qrToken by exactly 1, and the payload changes when a second
\* boundary was crossed
C5_Original ==
    [][(lastOp' = "tick" /\ showSyncQr
          /\ qrToken \in {0, MathFloorDiv(currentTime, 1000)}
          /\ currentTime' - currentTime >= 0 /\ currentTime' - currentTime < 1000) =>
           /\ (qrLabel' # qrLabel) => qrToken' = qrToken + 1
           /\ MathFloorDiv(currentTime', 1000) # MathFloorDiv(currentTime, 1000)
                  => qrLabel' # qrLabel]_vars

----------------------------------------------------------------------------
(* Time: the time rows under the time checkboxes and the zone select, for    *)
(* several instants, host zones and stored settings                          *)

InitTime ==
    Constructed(TcInstants, {830}, HostOffsets, {0, 24},
                {NoItem, Malformed, KolkataRecord, UnknownZoneRecord})

NextTime ==
    \/ Mount
    \/ PageMount
    \/ ToggleUtc
    \/ ToggleLocal
    \/ ToggleRemote
    \/ \E value \in TimezoneValues : SelectTimezone(value)

SpecTime == InitTime /\ [][NextTime]_vars

----------------------------------------------------------------------------
(* Page: the canvas size under resizes, fullscreen changes and the           *)
(* resolution select                                                         *)

InitPage ==
    Constructed(StartInstants, {830}, {0}, {0}, {NoItem, FullHdRecord, FrameRecord})

NextPage ==
    \/ Mount
    \/ PageMount
    \/ \E size \in ContainerSizes : ResizeObserved(size)
    \/ \E screen \in Screens, dprQ \in DprQuarters :
           HandleFullscreenChange(TRUE, screen, dprQ)
    \/ HandleFullscreenChange(FALSE, <<0, 0>>, 4)
    \/ HintTimeout
    \/ \E i \in DOMAIN resolutions : SelectResolution(resolutions[i].name)

SpecPage == InitPage /\ [][NextPage]_vars

----------------------------------------------------------------------------
(* C6 - C8: timecodes *)

TwoDigits(n) == <<n \div 10, n % 10>>

\* HH, MM, SS, FF of the time of day of an instant given with its zone's offset added
TimecodeOfLocal(localMs) ==
    LET w == localMs % msPerDay
    IN  <<TwoDigits(w \div 3600000), TwoDigits((w % 3600000) \div 60000),
          TwoDigits((w % 60000) \div 1000), TwoDigits(((w % 1000) * 30) \div 1000)>>

RowsLabelled(label) ==
    {i \in DOMAIN TimeRows.rows : TimeRows.rows[i].label = label}

\* C6: the UTC row is HH:MM:SS:FF of the UTC fields and the LOCAL row of the
\* local fields, each field two digits, FF = floor(milliseconds * 30 / 1000)
\* in 0..29
C6_TimecodeFormat ==
    /\ \A i \in RowsLabelled("UTC") :
           TimeRows.rows[i].timecode = TimecodeOfLocal(currentTime)
    /\ \A i \in RowsLabelled("LOCAL") :
           TimeRows.rows[i].timecode =
               TimecodeOfLocal(currentTime + localTzOffsetMin * 60000)
    /\ \A i \in DOMAIN TimeRows.rows :
           LET tc == TimeRows.rows[i].timecode
           IN  /\ \A k \in 1 .. 4 : Len(tc[k]) = 2
               /\ tc[4][1] * 10 + tc[4][2] \in 0 .. 29

\* UTC and LOCAL rows at milliseconds 999: frame 29, and different hours
C6_Witness ==
    /\ currentTime % 1000 = 999
    /\ \E i \in RowsLabelled("UTC") : \E j \in RowsLabelled("LOCAL") :
           /\ TimeRows.rows[i].timecode[4] = <<2, 9>>
           /\ TimeRows.rows[j].timecode[4] = <<2, 9>>
           /\ TimeRows.rows[i].timecode[1] # TimeRows.rows[j].timecode[1]

RemoteRows ==
    {i \in DOMAIN TimeRows.rows : TimeRows.rows[i].label \notin {"UTC", "LOCAL"}}

\* C7: for a zone with a fixed UTC offset the remote row shows the zone's local
\* hour, minute, second and frame of the current instant, also when the zone's
\* date differs from the UTC date
C7_RemoteTimecode ==
    (showRemoteTime /\ selectedTimezone \in FixedOffsetZones) =>
        /\ RemoteRows # {}
        /\ \A i \in RemoteRows :
               TimeRows.rows[i].timecode =
                   TimecodeOfLocal(currentTime + ZoneOffsetMin(selectedTimezone) * 60000)

\* 12:00:00.000 UTC shown for Asia/Kolkata as 17:30:00:00
C7_Witness ==
    /\ showRemoteTime /\ selectedTimezone = "Asia/Kolkata"
    /\ currentTime % msPerDay = 12 * 3600000
    /\ \E i \in RemoteRows :
           TimeRows.rows[i].timecode = <<<<1, 7>>, <<3, 0>>, <<0, 0>>, <<0, 0>>>>

\* C8 as claimed: with the remote time switched on and a zone identifier that
\* is not valid, rendering the time rows fails with an error
C8_Original ==
    (settingsLoaded /\ showRemoteTime /\ selectedTimezone \notin IanaZones) =>
        TimeRows.error = "RangeError"

----------------------------------------------------------------------------
(* C9 - C10: scaling detection and the main bars *)

\* C9: isScaled is true exactly when both native dimensions are positive and
\* the native size is not the rendered size; a native width of 0 gives false
C9_IsScaled ==
    /\ nativeWidth = 0 => ~isScaled
    /\ isScaled <=> /\ nativeWidth > 0 /\ nativeHeight > 0
                    /\ ~(nativeWidth = width /\ nativeHeight = height)

\* native 3840x2160 rendered at 1920x1080
C9_Witness ==
    /\ nativeWidth = 3840 /\ nativeHeight = 2160
    /\ width = 1920 /\ height = 1080
    /\ isScaled

RECURSIVE SumOfWidths(_)
SumOfWidths(n) == IF n = 0 THEN 0 ELSE SumOfWidths(n - 1) + MainBarRect(n - 1).width

\* C10 as claimed: the widths of the 7 main bars sum to within 1 unit of the
\* canvas width (7 units of 1/7 pixel)
C10_Original ==
    width > 0 =>
        /\ SumOfWidths(7) - 7 * width <= 7
        /\ 7 * width - SumOfWidths(7) <= 7

\* C10 amended: each of the 7 main bars is width / 7 + 1 wide and starts
\* width / 7 after the one before, so the widths sum to width + 7 while the
\* bars, each overlapping the next by 1 unit, cover 0 to width + 1
C10_MainBarWidths ==
    width > 0 =>
        /\ SumOfWidths(7) = 7 * (width + 7)
        /\ MainBarRect(0).x = 0
        /\ \A i \in 0 .. 5 :
               MainBarRect(i).x + MainBarRect(i).width = MainBarRect(i + 1).x + 7
        /\ MainBarRect(6).x + MainBarRect(6).width = 7 * (width + 1)

\* the bars of a 720 pixel wide canvas
C10_Witness ==
    /\ width = 720 /\ settingsLoaded
    /\ MainBarRect(6).x + MainBarRect(6).width = 7 * 721

----------------------------------------------------------------------------
(* C11 - C12: the PLUGE row and degenerate canvases *)

\* C11 as claimed: the x-offsets of the PLUGE segments do not decrease, each
\* segment is unit * (width / 8) wide and the right edge of the last segment
\* is the canvas width
C11_Original ==
    /\ \A i \in 0 .. 6 : getPlugeX(i) <= getPlugeX(i + 1)
    /\ \A i \in 0 .. 7 : PlugeRect(i).width = pluGeRow[i + 1].width * width
    /\ PlugeRect(7).x + PlugeRect(7).width = totalWidthUnits * width

\* C11 amended: the x-offsets start at 0, do not decrease and advance by
\* unit * (width / 8) from one segment to the next; each segment is
\* unit * (width / 8) + 1 wide, and the right edge of the last is width + 1
C11_PlugeLayout ==
    /\ totalWidthUnits = 16
    /\ getPlugeX(0) = 0
    /\ \A i \in 0 .. 6 :
           /\ getPlugeX(i) <= getPlugeX(i + 1)
           /\ getPlugeX(i + 1) = getPlugeX(i) + pluGeRow[i + 1].width * width
    /\ \A i \in 0 .. 7 :
           PlugeRect(i).width = pluGeRow[i + 1].width * width + totalWidthUnits
    /\ PlugeRect(7).x + PlugeRect(7).width = totalWidthUnits * (width + 1)

\* the PLUGE row of a 720 pixel wide canvas: the half-unit segment at 360 px
C11_Witness ==
    /\ width = 720 /\ settingsLoaded
    /\ PlugeRect(4).x = 16 * 360
    /\ PlugeRect(4).width = 16 * 46
    /\ PlugeRect(7).x + PlugeRect(7).width = 16 * 721

\* C12 as claimed: on a canvas of width 0 or height 0 every rect of the bar
\* rows and of the frame overlay has width 0 and height 0
C12_Original ==
    (settingsLoaded /\ (width = 0 \/ height = 0)) =>
        \A i \in DOMAIN (BarRects \o FrameRects) :
            /\ (BarRects \o FrameRects)[i].width = 0
            /\ (BarRects \o FrameRects)[i].height = 0

----------------------------------------------------------------------------
(* View: the frames of a view that shows the spinner, the sync QR and all    *)
(* three time rows, with time syncs between the frames                       *)

InitView == Constructed(StartInstants, {830}, {330}, {0}, {AllClocksRecord})

NextView ==
    \/ Mount
    \/ PageMount
    \/ \E d \in TickDeltas : Tick(d)
    \/ ToggleSpinner
    \/ ToggleSyncQr
    \/ ToggleLocal
    \/ SyncTimeCall
    \/ \E offset \in SyncOffsets : SyncTimeResolve(offset)
    \/ SyncTimeReject
    \/ Destroy

SpecView == InitView /\ [][NextView]_vars

----------------------------------------------------------------------------
(* C13: one instant per frame *)

\* the instant a payload's ISO timestamp denotes
PayloadInstant(label) ==
    label[1][1] * msPerDay + parseInt(label[1][2]) * 3600000
        + parseInt(label[1][3]) * 60000 + parseInt(label[1][4]) * 1000
        + parseInt(label[1][5])

\* C13: after a frame, currentTime is the one synchronized instant read in it;
\* the spinner phase is that instant modulo 5000, the QR token is its second
\* and a payload generated in that second carries a timestamp and a frame
\* index of that second, and the UTC, LOCAL and remote rows all show that
\* instant
C13_OneInstantPerFrame ==
    lastOp = "tick" =>
        /\ currentTime = getSyncedTime
        /\ showSpinner => /\ spinnerPhaseMs \in 0 .. 4999
                          /\ (currentTime - spinnerPhaseMs) % 5000 = 0
        /\ showSyncQr =>
               /\ qrToken * 1000 <= currentTime /\ currentTime < qrToken * 1000 + 1000
               /\ qrDataUrl.data = qrLabel
               /\ lastQrChangeSec = <<qrToken>> =>
                      /\ qrToken * 1000 <= PayloadInstant(qrLabel)
                      /\ PayloadInstant(qrLabel) < qrToken * 1000 + 1000
                      /\ qrLabel[4] =
                             TwoDigits(((PayloadInstant(qrLabel) % 1000) * 30) \div 1000)
        /\ \A i \in RowsLabelled("UTC") :
               TimeRows.rows[i].timecode = TimecodeOfLocal(currentTime)
        /\ \A i \in RowsLabelled("LOCAL") :
               TimeRows.rows[i].timecode =
                   TimecodeOfLocal(currentTime + localTzOffsetMin * 60000)
        /\ \A i \in RemoteRows :
               TimeRows.rows[i].timecode =
                   TimecodeOfLocal(currentTime + ZoneOffsetMin(selectedTimezone) * 60000)

\* a second frame after a time sync moved the clock, with the spinner, the
\* sync QR and three time rows shown
C13_Witness ==
    /\ lastOp = "tick" /\ ticks >= 2 /\ timeOffset # 0
    /\ showSpinner /\ showSyncQr
    /\ Len(TimeRows.rows) = 3

----------------------------------------------------------------------------
(* C14: teardown *)

\* C14: once the cleanup of onMount has run, the browser holds no
\* animation-frame callback of the view and no frame runs any more, whether
\* the cleanup ran before the first frame or between two frames
C14_NoFrameAfterDestroy ==
    destroyed => pendingFrames = {} /\ lastOp # "tick"

\* the view torn down after two frames, with the third frame's callback cancelled
C14_Witness ==
    destroyed /\ ticks = 2 /\ lastOp = "destroy" /\ animationFrame = 3

----------------------------------------------------------------------------
(* Sweep: the shimmer under frames that may come seconds apart (a stalled    *)
(* tab) and resizes between them                                             *)

\* gaps between animation frames, ms
SweepDeltas == {16, 2100, 5200}

NextSweep ==
    \/ Mount
    \/ PageMount
    \/ \E d \in SweepDeltas : Tick(d)
    \/ \E size \in ContainerSizes : ResizeObserved(size)
    \/ ToggleShimmer

SpecSweep == Init /\ [][NextSweep]_vars

----------------------------------------------------------------------------
(* C15: shimmer *)

\* C15 as claimed, for the states after a frame with the shimmer shown on a
\* canvas of positive size: the shimmer offset lies in
\* [-(shimmerWidth + height), width] for the width and height of that frame
C15_Original ==
    (lastOp = "tick" /\ showShimmer /\ width > 0 /\ height > 0) =>
        /\ shimmerX >= -(shimmerWidth + height * ShimmerUnit)
        /\ shimmerX <= width * ShimmerUnit

----------------------------------------------------------------------------
(* The frame-rate estimate *)

\* C16 as stated: a frame recomputes the FPS estimate only when at least 500 ms
\* have elapsed since the frames of the current window began to be counted
\* (the mount for the first window, the frame that closed the last window
\* afterwards); the estimate is then round(frames * 1000 / elapsed) and the
\* count restarts at this frame; on every other frame fps is unchanged.
C16_Original ==
    [][lastOp' = "tick" =>
          LET elapsed == perfNow' - countingSince
          IN  IF frameCount' = 0
              THEN /\ elapsed >= 500
                   /\ fps' = MathRoundDiv((frameCount + 1) * 1000, elapsed)
                   /\ fpsUpdateTime' = perfNow'
              ELSE /\ fps' = fps
                   /\ frameCount' = frameCount + 1]_vars

----------------------------------------------------------------------------
(* ColorBars component: the rows of the info box *)

\* line 432
extraRows == IF isScaled THEN 1 ELSE 0

\* totalRows without the NATIVE row
totalRows_NoExtra == Len(getTimeDisplays) + 2

\* line 433: the number of rows the box is sized for (infoBoxHeight, line 435)
totalRows == Len(getTimeDisplays) + 2 + extraRows

\* line 448
timeStartRow == IF isScaled THEN 3 ELSE 2

\* the label texts of the info box in template order, lines 513-624; a row's
\* rowY is boxY + height * 0.012 + rowHeight * (row + 0.5), lines 445-447 and 598
InfoRows ==
    LET displays == getTimeDisplays
    IN  << [label |-> IF isScaled THEN "OUT" ELSE "RES", row |-> 0] >>
        \o (IF isScaled THEN << [label |-> "NATIVE", row |-> 1] >> ELSE <<>>)
        \o << [label |-> "FPS", row |-> IF isScaled THEN 2 ELSE 1] >>
        \o [k \in DOMAIN displays |->
                [label |-> displays[k].label, row |-> (k - 1) + timeStartRow]]

\* height * thousandths / 1000 * textScale, in 1/10000 px: the font-size
\* expressions of lines 472, 521 and 534
FontSize(thousandths) == height * thousandths * textScale

\* the font-size attribute of every text the overlay stack emits, in template
\* order: the custom text when there is one (line 472), then the label and the
\* value of each info row (lines 521-619)
FontSizes ==
    (IF customText # "" THEN << FontSize(30) >> ELSE <<>>)
    \o [k \in 1 .. 2 * Len(InfoRows) |-> IF k % 2 = 1 THEN FontSize(16) ELSE FontSize(28)]

\* the values the range input of lines 1850-1858 can give: 0.5 to 3 in steps of 0.1
TextScales == {5, 17, 30}

\* the text-scale slider, bind:value of line 1857
TextScaleInput(value) ==
    /\ PageEvent("scale")
    /\ textScale # value
    /\ textScale' = value
    /\ UNCHANGED <<gridEnabled, frameEnabled, actualSizeMode, customText, customImage,
                   hAlign, vAlign>>
    /\ UNCHANGED <<dimVars, flagVars, timeFlagVars, settingsLoaded>>
    /\ SaveEffect
    /\ UNCHANGED syncVars

\* stored settings whose text scale is not a usable factor
NegativeScaleRecord == Stored([customText |-> "CAM 1", textScale |-> -10])
ZeroScaleRecord == Stored([showLocal |-> TRUE, textScale |-> 0])

----------------------------------------------------------------------------
(* Info: the info box under the time checkboxes, the text-scale slider and   *)
(* fullscreen changes                                                        *)

InitInfo ==
    Constructed(StartInstants, {830}, {0}, {0},
                {NoItem, AllClocksRecord, UnknownZoneRecord, NegativeScaleRecord,
                 ZeroScaleRecord})

NextInfo ==
    \/ Mount
    \/ PageMount
    \/ ToggleUtc
    \/ ToggleLocal
    \/ ToggleRemote
    \/ \E screen \in Screens, dprQ \in DprQuarters :
           HandleFullscreenChange(TRUE, screen, dprQ)
    \/ HandleFullscreenChange(FALSE, <<0, 0>>, 4)
    \/ \E value \in TextScales : TextScaleInput(value)

SpecInfo == InitInfo /\ [][NextInfo]_vars

\* the number of time displays the component is given: showUtc, showLocal and
\* a remoteTimezone that is not null
EnabledDisplays ==
    (IF showUtc THEN 1 ELSE 0) + (IF showLocal THEN 1 ELSE 0)
        + (IF remoteTimezone # <<>> THEN 1 ELSE 0)

RowsOf(label) == {InfoRows[k].row : k \in {j \in DOMAIN InfoRows : InfoRows[j].label = label}}

\* C17: the info box is sized for, and draws, 2 + (1 if isScaled) + (number of
\* enabled time displays) rows, one label in each row; when isScaled the first
\* row is OUT and there is a NATIVE row, otherwise the first row is RES and
\* there is no NATIVE row
C17_InfoBoxRows ==
    LET n == 2 + (IF isScaled THEN 1 ELSE 0) + EnabledDisplays
    IN  /\ totalRows = n
        /\ Len(InfoRows) = n
        /\ \A r \in 0 .. n - 1 : Cardinality({k \in DOMAIN InfoRows : InfoRows[k].row = r}) = 1
        /\ IF isScaled
           THEN RowsOf("OUT") = {0} /\ RowsOf("RES") = {} /\ RowsOf("NATIVE") # {}
           ELSE RowsOf("RES") = {0} /\ RowsOf("OUT") = {} /\ RowsOf("NATIVE") = {}

\* a scaled fullscreen canvas with no time display enabled: OUT, NATIVE, FPS
C17_Witness == isScaled /\ EnabledDisplays = 0 /\ totalRows = 3 /\ lastOp = "toggle"

\* the place of a time display in the order UTC, LOCAL, remote
DisplayRank(label) == IF label = "UTC" THEN 1 ELSE IF label = "LOCAL" THEN 2 ELSE 3

\* the rows of the info box below the FPS row, from the top
RowsBelowFps ==
    LET fpsRow == CHOOSE r \in RowsOf("FPS") : TRUE
        below  == {k \in DOMAIN InfoRows : InfoRows[k].row > fpsRow}
    IN  [i \in 1 .. Cardinality(below) |->
            CHOOSE k \in below : Cardinality({j \in below : InfoRows[j].row < InfoRows[k].row}) = i - 1]

\* C18: the enabled time displays are listed in the order UTC, LOCAL, remote,
\* whichever of them are enabled; the i-th of them (from 0) is drawn in row
\* i + 2, or i + 3 when isScaled, so the rows below the FPS row show them in
\* that order from the top
C18_DisplayOrder ==
    LET displays == getTimeDisplays
    IN  /\ Len(displays) = EnabledDisplays
        /\ showUtc <=> \E k \in DOMAIN displays : displays[k].label = "UTC"
        /\ showLocal <=> \E k \in DOMAIN displays : displays[k].label = "LOCAL"
        /\ \A j, k \in DOMAIN displays :
               j < k => DisplayRank(displays[j].label) < DisplayRank(displays[k].label)
        /\ \A k \in DOMAIN displays :
               RowsOf(displays[k].label) = {(k - 1) + (IF isScaled THEN 3 ELSE 2)}
        /\ Len(RowsBelowFps) = Len(displays)
        /\ \A k \in DOMAIN displays : InfoRows[RowsBelowFps[k]].label = displays[k].label

\* LOCAL and the remote zone without UTC on a scaled canvas: rows 3 and 4
C18_Witness ==
    /\ isScaled /\ ~showUtc /\ showLocal /\ remoteTimezone # <<>>
    /\ RowsOf("LOCAL") = {3}
    /\ RowsOf("IST") = {4}

----------------------------------------------------------------------------
(* The text scale *)

\* C19 as stated: whatever text scale the settings give, zero and negative
\* included, every font size the overlay emits on a canvas of positive height
\* is positive
C19_Original ==
    (settingsLoaded /\ height > 0) => \A k \in DOMAIN FontSizes : FontSizes[k] > 0

----------------------------------------------------------------------------
(* The spinner flash *)

\* lines 627 and 696: the crosshair and the starburst are drawn
FlashVisible == showSpinner /\ spinnerPhaseMs * 100 < spinnerFlashFrameMs

\* the 5000 ms spinner cycle an instant falls in
SpinnerCycle(t) == MathFloorDiv(t, spinnerCycleMs)

\* C20 as stated: with the spinner enabled, a frame that shows the flash marker
\* is the first frame whose phase falls in its 5000 ms cycle, so the frame before
\* it (which drew the spinner at the phase of its own instant) lies in another
\* cycle and the marker shows at most once per cycle
C20_Original ==
    [][(lastOp' = "tick" /\ ticks >= 1 /\ showSpinner
            /\ spinnerPhaseMs = SpinnerPhase(currentTime) /\ FlashVisible') =>
          SpinnerCycle(currentTime') # SpinnerCycle(currentTime)]_vars

----------------------------------------------------------------------------
(* Route page: the remaining controls and a reload *)

\* the grid and frame checkboxes, lines 1782 and 1786
ToggleGrid ==
    /\ PageEvent("toggle")
    /\ gridEnabled' = ~gridEnabled
    /\ UNCHANGED <<frameEnabled, actualSizeMode, customText, customImage, hAlign, vAlign,
                   textScale>>
    /\ UNCHANGED <<dimVars, flagVars, timeFlagVars, settingsLoaded>>
    /\ SaveEffect
    /\ UNCHANGED syncVars

ToggleFrame ==
    /\ PageEvent("toggle")
    /\ frameEnabled' = ~frameEnabled
    /\ UNCHANGED <<gridEnabled, actualSizeMode, customText, customImage, hAlign, vAlign,
                   textScale>>
    /\ UNCHANGED <<dimVars, flagVars, timeFlagVars, settingsLoaded>>
    /\ SaveEffect
    /\ UNCHANGED syncVars

\* the scale indicator button, lines 1751-1760: shown for a fixed resolution;
\* the $effect of lines 1619-1627 does not read actualSizeMode and does not run
ToggleActualSize ==
    /\ PageEvent("actualSize")
    /\ resolution # "Fit Display"
    /\ actualSizeMode' = ~actualSizeMode
    /\ UNCHANGED <<gridEnabled, frameEnabled, customText, customImage, hAlign, vAlign,
                   textScale>>
    /\ UNCHANGED <<dimVars, flagVars, timeFlagVars, settingsLoaded>>
    /\ UNCHANGED <<storage, syncVars>>

\* the custom text input, bind:value of line 1817
CustomTextInput(text) ==
    /\ PageEvent("text")
    /\ customText # text
    /\ customText' = text
    /\ UNCHANGED <<gridEnabled, frameEnabled, actualSizeMode, customImage, hAlign, vAlign,
                   textScale>>
    /\ UNCHANGED <<dimVars, flagVars, timeFlagVars, settingsLoaded>>
    /\ SaveEffect
    /\ UNCHANGED syncVars

\* handleImageUpload, lines 1530-1540, with the reader's onload; url is the
\* data URL read; the $effect does not read customImage and does not run
HandleImageUpload(url) ==
    /\ PageEvent("image")
    /\ customImage' = url
    /\ UNCHANGED <<gridEnabled, frameEnabled, actualSizeMode, customText, hAlign, vAlign,
                   textScale>>
    /\ UNCHANGED <<dimVars, flagVars, timeFlagVars, settingsLoaded>>
    /\ UNCHANGED <<storage, syncVars>>

\* clearImage, lines 1542-1545; its button is shown while there is an image
ClearImage ==
    /\ PageEvent("image")
    /\ customImage # ""
    /\ customImage' = ""
    /\ UNCHANGED <<gridEnabled, frameEnabled, actualSizeMode, customText, hAlign, vAlign,
                   textScale>>
    /\ UNCHANGED <<dimVars, flagVars, timeFlagVars, settingsLoaded>>
    /\ UNCHANGED <<storage, syncVars>>

\* the alignment buttons, lines 1838-1840 and 1843-1845
SetHAlign(value) ==
    /\ PageEvent("align")
    /\ hAlign # value
    /\ hAlign' = value
    /\ UNCHANGED <<gridEnabled, frameEnabled, actualSizeMode, customText, customImage, vAlign,
                   textScale>>
    /\ UNCHANGED <<dimVars, flagVars, timeFlagVars, settingsLoaded>>
    /\ SaveEffect
    /\ UNCHANGED syncVars

SetVAlign(value) ==
    /\ PageEvent("align")
    /\ vAlign # value
    /\ vAlign' = value
    /\ UNCHANGED <<gridEnabled, frameEnabled, actualSizeMode, customText, customImage, hAlign,
                   textScale>>
    /\ UNCHANGED <<dimVars, flagVars, timeFlagVars, settingsLoaded>>
    /\ SaveEffect
    /\ UNCHANGED syncVars

\* every setting the page's controls configure: the saved record of lines
\* 1566-1584 and the two controls it leaves out (lines 1475 and 1485)
UserSettings ==
    [saved |-> Settings, customImage |-> customImage, actualSizeMode |-> actualSizeMode]

\* the page is closed and opened again: the scripts run anew (lines 11-18 of
\* timeSync.ts, 145-184 and 1447-1494) and localStorage is what it was
Reload ==
    /\ settingsLoaded
    /\ events < MaxEvents
    /\ events' = events + 1
    /\ lastOp' = "reload"
    /\ settingsAtUnload' = <<UserSettings>>
    /\ UNCHANGED <<dateNow, localTzOffsetMin, midnightHour, storage>>
    /\ perfNow' \in PerfStarts
    /\ timeOffset' = 0 /\ synced' = FALSE /\ syncInProgress' = FALSE
    /\ resolution' = "Fit Display"
    /\ containerWidth' = 1920 /\ containerHeight' = 1080
    /\ nativeWidth' = 0 /\ nativeHeight' = 0
    /\ isFullscreen' = FALSE /\ showFullscreenHint' = FALSE
    /\ ballEnabled' = FALSE /\ spinnerEnabled' = FALSE
    /\ syncQrEnabled' = FALSE /\ shimmerEnabled' = FALSE
    /\ gridEnabled' = FALSE /\ frameEnabled' = FALSE /\ actualSizeMode' = FALSE
    /\ showUtcTime' = TRUE /\ showLocalTime' = FALSE /\ showRemoteTime' = FALSE
    /\ selectedTimezone' = "America/New_York"
    /\ customText' = "" /\ customImage' = ""
    /\ hAlign' = "center" /\ vAlign' = "center"
    /\ textScale' = 10
    /\ settingsLoaded' = FALSE
    /\ mounted' = FALSE
    /\ animationFrame' = 0
    /\ pendingFrames' = {}
    /\ destroyed' = FALSE
    /\ currentTime' = dateNow
    /\ fps' = 0 /\ lastFrameTime' = 0 /\ frameCount' = 0 /\ fpsUpdateTime' = 0
    /\ ballX' = 0 /\ ballDirection' = 1
    /\ spinnerAngle' = 0
    /\ spinnerFlashFrameMs' = CmsPerSec \div 60
    /\ spinnerPhaseMs' = 0
    /\ qrToken' = 0 /\ qrLabel' = <<>> /\ qrDataUrl' = <<>>
    /\ shimmerX' = 0
    /\ UNCHANGED <<ticks, lastQrChangeSec, countingSince>>

----------------------------------------------------------------------------
(* Settings: every control of the page, and reloads *)

CustomTexts == {"", "CAM 1"}
ImageUrls == {"data:image/png;base64,AAAA"}
HAligns == {"left", "center", "right"}
VAligns == {"top", "center", "bottom"}

InitSettings ==
    Constructed(StartInstants, {830}, {0}, {0}, {NoItem, Malformed, FullHdRecord})

NextSettings ==
    \/ Mount
    \/ PageMount
    \/ Reload
    \/ \E i \in DOMAIN resolutions : SelectResolution(resolutions[i].name)
    \/ ToggleBall \/ ToggleSpinner \/ ToggleSyncQr \/ ToggleShimmer
    \/ ToggleGrid \/ ToggleFrame
    \/ ToggleUtc \/ ToggleLocal \/ ToggleRemote
    \/ \E value \in TimezoneValues : SelectTimezone(value)
    \/ \E text \in CustomTexts : CustomTextInput(text)
    \/ \E url \in ImageUrls : HandleImageUpload(url)
    \/ ClearImage
    \/ ToggleActualSize
    \/ \E value \in HAligns : SetHAlign(value)
    \/ \E value \in VAligns : SetVAlign(value)
    \/ \E value \in TextScales : TextScaleInput(value)

SpecSettings == InitSettings /\ [][NextSettings]_vars

\* C21 as stated: after a reload, once the page has mounted and loadSettings
\* has run, every user-configurable setting (the saved ones, the custom image
\* and the 1:1 pixel mode) has the value it had when the page was closed
C21_Original ==
    (lastOp = "pageMount" /\ settingsAtUnload # <<>>) =>
        UserSettings = settingsAtUnload[1]

----------------------------------------------------------------------------
(* Sync: the time sync under visibility changes, responses, frames and       *)
(* other page events                                                         *)

InitSync == Constructed(StartInstants, {830}, {0}, {0}, {NoItem, ClockRecord})

NextSync ==
    \/ Mount
    \/ PageMount
    \/ \E d \in TickDeltas : Tick(d)
    \/ SyncTimeCall
    \/ SyncTimeBusy
    \/ VisibilityHidden
    \/ \E offset \in SyncOffsets : SyncTimeResolve(offset)
    \/ SyncTimeReject
    \/ ToggleSyncQr
    \/ \E size \in ContainerSizes : ResizeObserved(size)

SpecSync == InitSync /\ [][NextSync]_vars

\* a step starts a sync request
SyncStarted == ~syncInProgress /\ syncInProgress'

\* C22 as stated: a time sync is started only by the page's mount
C22_Original ==
    [][SyncStarted => lastOp' = "pageMount"]_vars

\* C22, amended: the page's mount starts a time sync, and afterwards a sync is
\* started only when the page becomes visible while none is in flight; frames,
\* toggles, resizes, responses and the page being hidden start none
C22_SyncTriggers ==
    [][/\ lastOp' = "pageMount" => SyncStarted
       /\ SyncStarted => lastOp' \in {"pageMount", "visible"}
       /\ (lastOp' = "visible" /\ ~syncInProgress) => SyncStarted]_vars

\* a second sync in flight, started by the page becoming visible after the
\* first one had succeeded
C22_Witness == lastOp = "visible" /\ syncInProgress /\ synced

\* a step in which a sync request ends with a response that is used
SyncSucceeded == syncInProgress /\ ~syncInProgress' /\ synced'

\* a step in which a sync request ends in the catch branch
SyncFailed == syncInProgress /\ ~syncInProgress' /\ ~synced'

\* C23: the offset is 0 until a sync succeeds and changes only when one
\* succeeds; a failed sync leaves it unchanged and only sets synced to false;
\* a frame reads the local clock plus that offset and leaves the time-sync
\* state as it was
C23_SyncedTime ==
    /\ timeOffset = 0
    /\ [][/\ timeOffset' # timeOffset => SyncSucceeded
          /\ SyncFailed => timeOffset' = timeOffset
          /\ lastOp' = "tick" =>
                 /\ currentTime' = dateNow' + timeOffset
                 /\ UNCHANGED <<timeOffset, synced, syncInProgress>>]_vars

\* a frame after a sync that failed, following one that had succeeded: the
\* frame still uses the offset of the success
C23_Witness ==
    /\ lastOp = "tick" /\ ~synced /\ ~syncInProgress
    /\ timeOffset \in SyncOffsets
    /\ currentTime = dateNow + timeOffset

----------------------------------------------------------------------------
(* ColorBars component: the overlay stack, lines 429-442, in 1/2000 px *)

StackUnit == 2 * 1000

rowHeight == height * 90                          \* height * 0.045
gap == height * 30                                \* height * 0.015
margin == height * 40                             \* height * 0.02
infoBoxHeight == rowHeight * totalRows + height * 50
textBoxHeight == IF customText # "" THEN height * 100 ELSE 0
imgBoxHeight == IF customImage # "" THEN height * 240 ELSE 0

\* line 438
totalStackHeight ==
    infoBoxHeight + textBoxHeight + imgBoxHeight
        + (IF customText # "" THEN gap ELSE 0) + (IF customImage # "" THEN gap ELSE 0)

\* line 439
stackStartY ==
    IF vAlign = "top" THEN margin
    ELSE IF vAlign = "bottom" THEN height * StackUnit - totalStackHeight - margin
    ELSE (height * StackUnit - totalStackHeight) \div 2

\* lines 440-441
textBoxY == stackStartY
imgBoxY == stackStartY + (IF customText # "" THEN textBoxHeight + gap ELSE 0)

\* boxY without the image box above the info box
boxY_IgnoringImage ==
    stackStartY + (IF customText # "" THEN textBoxHeight + gap ELSE 0)

\* line 442
boxY ==
    stackStartY + (IF customText # "" THEN textBoxHeight + gap ELSE 0)
        + (IF customImage # "" THEN imgBoxHeight + gap ELSE 0)

\* the background rects of the stack in template order, lines 455-512
StackBoxes ==
    (IF customText # "" THEN << [name |-> "text", y |-> textBoxY, height |-> textBoxHeight] >>
     ELSE <<>>)
    \o (IF customImage # "" THEN << [name |-> "image", y |-> imgBoxY, height |-> imgBoxHeight] >>
        ELSE <<>>)
    \o << [name |-> "info", y |-> boxY, height |-> infoBoxHeight] >>

----------------------------------------------------------------------------
(* C24: the overlay stack *)

RECURSIVE SumHeights(_, _)
SumHeights(boxes, n) == IF n = 0 THEN 0 ELSE SumHeights(boxes, n - 1) + boxes[n].height

StackRank(name) == IF name = "text" THEN 1 ELSE IF name = "image" THEN 2 ELSE 3

\* C24: the stack starts at the margin (0.02 * height) for top, ends the margin
\* above the canvas bottom for bottom, and is centred for center; its boxes are
\* the text box when there is text, the image box when there is an image, and
\* the info box, in that order, each starting one gap below the end of the one
\* before; totalStackHeight is the sum of their heights plus one gap for each
\* optional box present
C24_StackLayout ==
    LET boxes    == StackBoxes
        n        == Len(boxes)
        optional == (IF customText # "" THEN 1 ELSE 0) + (IF customImage # "" THEN 1 ELSE 0)
        canvas   == height * StackUnit
        top      == boxes[1].y
        bottom   == boxes[n].y + boxes[n].height
    IN  /\ n = 1 + optional
        /\ boxes[n].name = "info"
        /\ \A k \in 1 .. n - 1 :
               /\ StackRank(boxes[k].name) < StackRank(boxes[k + 1].name)
               /\ boxes[k + 1].y = boxes[k].y + boxes[k].height + (height * 15 * StackUnit) \div 1000
        /\ \A k \in 1 .. n : boxes[k].height > 0
        /\ totalStackHeight = SumHeights(boxes, n) + optional * ((height * 15 * StackUnit) \div 1000)
        /\ bottom - top = totalStackHeight
        /\ top = stackStartY
        /\ vAlign = "top" => top = (height * 20 * StackUnit) \div 1000
        /\ vAlign = "bottom" => bottom = canvas - (height * 20 * StackUnit) \div 1000
        /\ vAlign = "center" => top = canvas - bottom

\* text, image and info box stacked against the bottom of the canvas
C24_Witness ==
    /\ vAlign = "bottom" /\ customText # "" /\ customImage # ""
    /\ Len(StackBoxes) = 3
    /\ lastOp \in {"align", "text", "image"}

----------------------------------------------------------------------------
(* C25: the ball's advance *)

\* C25: a frame with the ball shown that ends strictly between the bounds has
\* moved ballX by (width / 2) px/s * ballDirection * the time since the previous
\* frame's timestamp (16.67 ms on the first frame) and kept the direction
C25_BallAdvance ==
    [][(lastOp' = "tick" /\ showBall
            /\ ballX' > ballRadius /\ ballX' < width * BallUnit - ballRadius) =>
          LET deltaCms == IF ticks = 0 THEN FirstFrameDelta ELSE (perfNow' - perfNow) * 100
              perCms   == (width * (BallUnit \div 2)) \div CmsPerSec
          IN  /\ ballX' - ballX = perCms * ballDirection * deltaCms
              /\ ballDirection' = ballDirection]_vars

\* a third frame, 990 ms after the second, that ends between the bounds
C25_Witness ==
    /\ lastOp = "tick" /\ showBall /\ ticks = 3
    /\ spinnerFlashFrameMs = 99000
    /\ ballX > ballRadius /\ ballX < width * BallUnit - ballRadius

----------------------------------------------------------------------------
(* C26: the QR payload *)

\* C26: after every frame with the sync QR shown, qrToken is the whole second
\* of the frame's synchronized instant; a frame that regenerates the payload
\* makes it that instant's ISO timestamp, the canvas width and height of the
\* frame, and FF = floor(UTC milliseconds * 30 / 1000) as two digits in 00..29,
\* and encodes exactly that payload
C26_QrPayload ==
    [][(lastOp' = "tick" /\ showSyncQr) =>
          LET t == dateNow' + timeOffset
          IN  /\ qrToken' = MathFloorDiv(t, 1000)
              /\ qrToken' # qrToken =>
                     /\ PayloadInstant(qrLabel') = t
                     /\ qrLabel'[2] = width /\ qrLabel'[3] = height
                     /\ qrLabel'[4] = TwoDigits(((t % 1000) * 30) \div 1000)
                     /\ qrLabel'[4][1] * 10 + qrLabel'[4][2] \in 0 .. 29
                     /\ qrDataUrl'.data = qrLabel']_vars

\* a payload regenerated after a resize to 240x400 and a successful time sync
C26_Witness ==
    /\ lastOp = "tick" /\ showSyncQr /\ timeOffset # 0
    /\ width = 240 /\ qrLabel[2] = 240 /\ qrLabel[3] = 400
    /\ PayloadInstant(qrLabel) = currentTime

----------------------------------------------------------------------------
(* C27: one animation loop *)

\* C27: the browser never holds more than one animation-frame callback of the
\* view; none before the mount, exactly one after the mount and after every
\* frame, which is a new one whose handle is the one kept in animationFrame
C27_OnePendingFrame ==
    /\ pendingFrames = {}
    /\ [][/\ Cardinality(pendingFrames') <= 1
          /\ lastOp' \in {"mount", "tick"} =>
                 /\ pendingFrames' = {animationFrame'}
                 /\ pendingFrames' \cap pendingFrames = {}
          /\ (mounted' /\ ~destroyed') => Cardinality(pendingFrames') = 1]_vars

\* the third frame has run and scheduled the fourth
C27_Witness ==
    lastOp = "tick" /\ ticks = 3 /\ pendingFrames = {4} /\ animationFrame = 4

----------------------------------------------------------------------------
(* Frame: frames under every combination of the four animated overlays *)

InitFrame == Constructed(StartInstants, {830}, {0}, {0}, {NoItem, MotionRecord, ClockRecord})

NextFrame ==
    \/ Mount
    \/ PageMount
    \/ \E d \in TickDeltas : Tick(d)
    \/ ToggleBall
    \/ ToggleSpinner
    \/ ToggleSyncQr
    \/ ToggleShimmer

SpecFrame == InitFrame /\ [][NextFrame]_vars

\* C28: a frame leaves the state of every overlay that is not shown as it was
\* (ball: ballX, ballDirection; spinner: spinnerPhaseMs, spinnerAngle; sync QR:
\* qrToken, payload and image; shimmer: shimmerX), and whatever is shown it
\* sets currentTime to the synchronized instant, counts the frame for the FPS
\* estimate, and sets lastFrameTime to the timestamp and spinnerFlashFrameMs to
\* the time since the previous frame
C28_DisabledUntouched ==
    [][lastOp' = "tick" =>
          /\ ~ballEnabled => UNCHANGED <<ballX, ballDirection>>
          /\ ~spinnerEnabled => UNCHANGED <<spinnerPhaseMs, spinnerAngle>>
          /\ ~syncQrEnabled => UNCHANGED <<qrToken, qrLabel, qrDataUrl>>
          /\ ~shimmerEnabled => UNCHANGED shimmerX
          /\ currentTime' = dateNow' + timeOffset
          /\ \/ frameCount' = frameCount + 1 /\ UNCHANGED <<fps, fpsUpdateTime>>
             \/ frameCount' = 0 /\ fpsUpdateTime' = perfNow'
          /\ lastFrameTime' = perfNow'
          /\ spinnerFlashFrameMs' =
                 IF lastFrameTime > 0 THEN (perfNow' - lastFrameTime) * 100
                 ELSE FirstFrameDelta]_vars

\* a frame with all four overlays off, after frames that had moved the ball
\* and the shimmer: both are where they were left, and the clock went on
C28_Witness ==
    /\ lastOp = "tick" /\ ticks >= 2
    /\ ~ballEnabled /\ ~spinnerEnabled /\ ~syncQrEnabled /\ ~shimmerEnabled
    /\ ballX > ballRadius /\ shimmerX > 0
    /\ currentTime = dateNow + timeOffset /\ lastFrameTime = perfNow

\* C29: at most one sync is in flight: none is before the page's onMount, a
\* sync starts only from the idle state, a call made while one is awaiting
\* the network changes nothing, only the arrival of the answer (good or bad)
\* ends it, every such arrival resets syncInProgress, and a call made when
\* idle starts a new sync
C29_SingleSync ==
    /\ ~syncInProgress
    /\ [][/\ ~settingsLoaded' => ~syncInProgress'
          /\ lastOp' = "pageMount" => ~syncInProgress /\ syncInProgress'
          /\ (lastOp' = "visible" /\ syncInProgress) =>
                UNCHANGED <<syncVars, storage, pageVars, envVars, animVars>>
          /\ (lastOp' = "visible" /\ ~syncInProgress) => syncInProgress'
          /\ (syncInProgress /\ ~syncInProgress') => lastOp' = "sync"
          /\ lastOp' = "sync" => syncInProgress /\ ~syncInProgress']_vars

\* the page became visible while the sync started by onMount was still
\* awaiting its answer
C29_Witness ==
    /\ lastOp = "visible" /\ events = 1
    /\ syncInProgress /\ ~synced /\ timeOffset = 0

\* C30: storage is written only by steps that end with settingsLoaded true;
\* settingsLoaded is raised only by the page's onMount, after loadSettings:
\* that step takes every stored value into the settings and writes it back
\* unchanged, and with no item or with text that is not JSON it leaves every
\* setting at its default; until then the settings are the defaults
C30_LoadBeforeSave ==
    /\ ~settingsLoaded /\ Settings = DefaultSettings
    /\ [][/\ storage' # storage => settingsLoaded'
          /\ ~settingsLoaded' => Settings' = DefaultSettings
          /\ (~settingsLoaded /\ settingsLoaded') => lastOp' = "pageMount"
          /\ lastOp' = "pageMount" =>
                /\ ~settingsLoaded /\ settingsLoaded'
                /\ storage' = Stored(Settings')
                /\ IF storage.kind = "record"
                   THEN \A key \in DOMAIN storage.data :
                           /\ Settings'[key] = storage.data[key]
                           /\ storage'.data[key] = storage.data[key]
                   ELSE Settings' = DefaultSettings]_vars

\* the page has mounted again after a reload, over a record the previous
\* visit wrote with a custom text: the text is loaded and still stored
C30_Witness ==
    /\ lastOp = "pageMount" /\ settingsAtUnload # <<>>
    /\ settingsLoaded
    /\ customText = "CAM 1"
    /\ storage = Stored(Settings)
====
